---- MODULE Spec2Model ----
(***************************************************************************)
(* A model of pretty-console (src/src/lib.rs): the Color / Attribute /     *)
(* Style encoders, the Console builder and its two renderers (Display and  *)
(* write_to).                                                              *)
(*                                                                         *)
(* A Rust String is modelled as a sequence of one-character strings, the   *)
(* byte 0x1B being the element ESC.  A Vec<Attribute> is a heap object     *)
(* with an address, so that clone() and moves can be told apart.           *)
(*                                                                         *)
(* Spec          the builder and the renderers in the default build        *)
(* SpecNoColor   the same in a build with the feature no-color             *)
(* SpecWithText  the builder with with_text                                *)
(* SpecColor     to_fg_code and to_bg_code on their own                    *)
(* SpecAttr      to_code on its own                                        *)
(* SpecPrint     the builder, to_string, write_to, print and println       *)
(* SpecNamed     the named colour methods, fg_rgb and bg_rgb               *)
(* SpecRender    the builder, to_string and write_to into a Vec<u8>, with  *)
(*               and without the no-color feature                          *)
(***************************************************************************)
EXTENDS Integers, Sequences, FiniteSets

----------------------------------------------------------------------------
(* Bounds of the model *)

\* the number of builder calls applied to one style lineage
MaxCalls == 4
\* the number of bytes a failing sink write delivers when it delivers any
MaxPartial == 1
\* the number of heap cells for attribute vectors
HeapSize == 3
\* the number of colour method calls applied to one Console
MaxColorCalls == 2

----------------------------------------------------------------------------
(* Strings *)

ESC == "ESC"

\* the universal SGR reset "\x1b[0m"
RESET == <<ESC, "[", "0", "m">>

U8Max == 255

DigitChar(d) ==
  CASE d = 0 -> "0" [] d = 1 -> "1" [] d = 2 -> "2" [] d = 3 -> "3"
    [] d = 4 -> "4" [] d = 5 -> "5" [] d = 6 -> "6" [] d = 7 -> "7"
    [] d = 8 -> "8" [] d = 9 -> "9"

\* format!("{}", n) for a u8: decimal, no sign, no padding
RECURSIVE fmt_u8(_)
fmt_u8(n) ==
  IF n < 10 THEN <<DigitChar(n)>>
  ELSE Append(fmt_u8(n \div 10), DigitChar(n % 10))

\* codes.join(";")
RECURSIVE join(_)
join(codes) ==
  IF Len(codes) = 0 THEN <<>>
  ELSE IF Len(codes) = 1 THEN codes[1]
  ELSE codes[1] \o <<";">> \o join(Tail(codes))

----------------------------------------------------------------------------
(* Color *)

Named(n) == [tag |-> "Named", n |-> n]
RGB(r, g, b) == [tag |-> "RGB", r |-> r, g |-> g, b |-> b]

Color_BLACK == Named(0)
Color_RED == Named(1)
Color_GREEN == Named(2)
Color_YELLOW == Named(3)
Color_BLUE == Named(4)
Color_MAGENTA == Named(5)
Color_CYAN == Named(6)
Color_WHITE == Named(7)
Color_BRIGHT_BLACK == Named(8)
Color_BRIGHT_RED == Named(9)
Color_BRIGHT_GREEN == Named(10)
Color_BRIGHT_YELLOW == Named(11)
Color_BRIGHT_BLUE == Named(12)
Color_BRIGHT_MAGENTA == Named(13)
Color_BRIGHT_CYAN == Named(14)
Color_BRIGHT_WHITE == Named(15)

to_fg_code(c) ==
  IF c.tag = "Named"
  THEN <<"3", "8", ";", "5", ";">> \o fmt_u8(c.n)
  ELSE <<"3", "8", ";", "2", ";">> \o fmt_u8(c.r) \o <<";">> \o fmt_u8(c.g)
         \o <<";">> \o fmt_u8(c.b)

\* to_bg_code with the selector of to_fg_code
to_bg_code_as_fg(c) ==
  IF c.tag = "Named"
  THEN <<"3", "8", ";", "5", ";">> \o fmt_u8(c.n)
  ELSE <<"3", "8", ";", "2", ";">> \o fmt_u8(c.r) \o <<";">> \o fmt_u8(c.g)
         \o <<";">> \o fmt_u8(c.b)

to_bg_code(c) ==
  IF c.tag = "Named"
  THEN <<"4", "8", ";", "5", ";">> \o fmt_u8(c.n)
  ELSE <<"4", "8", ";", "2", ";">> \o fmt_u8(c.r) \o <<";">> \o fmt_u8(c.g)
         \o <<";">> \o fmt_u8(c.b)

----------------------------------------------------------------------------
(* Attribute *)

Attribute ==
  {"Bold", "Dim", "Italic", "Underline", "Blink", "Reverse", "Hidden",
   "Strikethrough"}

\* the codes numbered on without the gap at 6
to_code_no_gap(a) ==
  CASE a = "Bold" -> <<"1">>
    [] a = "Dim" -> <<"2">>
    [] a = "Italic" -> <<"3">>
    [] a = "Underline" -> <<"4">>
    [] a = "Blink" -> <<"5">>
    [] a = "Reverse" -> <<"6">>
    [] a = "Hidden" -> <<"7">>
    [] a = "Strikethrough" -> <<"8">>

to_code(a) ==
  CASE a = "Bold" -> <<"1">>
    [] a = "Dim" -> <<"2">>
    [] a = "Italic" -> <<"3">>
    [] a = "Underline" -> <<"4">>
    [] a = "Blink" -> <<"5">>
    [] a = "Reverse" -> <<"7">>
    [] a = "Hidden" -> <<"8">>
    [] a = "Strikethrough" -> <<"9">>

----------------------------------------------------------------------------
(* The heap of attribute vectors *)

Addr == 1..HeapSize

FreeCell == [live |-> FALSE, items |-> <<>>]

EmptyHeap == [a \in Addr |-> FreeCell]

\* the lowest free address
Alloc(h) == CHOOSE a \in Addr : ~h[a].live /\ \A b \in Addr : b < a => h[b].live

\* Vec::new() / Vec::default()
Vec_new(h) ==
  LET a == Alloc(h)
  IN [heap |-> [h EXCEPT ![a] = [live |-> TRUE, items |-> <<>>]], addr |-> a]

\* Vec::push
Vec_push(h, a, x) == [h EXCEPT ![a].items = Append(@, x)]

\* a clone that shares the vector instead of copying it
Vec_clone_shares(h, a) == [heap |-> h, addr |-> a]

\* <Vec<Attribute> as Clone>::clone: a new vector with the same elements
Vec_clone(h, a) ==
  LET n == Alloc(h)
  IN [heap |-> [h EXCEPT ![n] = [live |-> TRUE, items |-> h[a].items]],
      addr |-> n]

\* drop of a Vec
Vec_drop(h, a) == [h EXCEPT ![a] = FreeCell]

----------------------------------------------------------------------------
(* Style *)

None == [tag |-> "None"]
Some(v) == [tag |-> "Some", val |-> v]

\* Style::new() / Style::default()
Style_new(h) ==
  LET v == Vec_new(h)
  IN [heap |-> v.heap,
      style |-> [foreground |-> None, background |-> None,
                 attributes |-> v.addr]]

\* fg keeping a foreground that is already set
Style_fg_keeps_first(s, color) ==
  IF s.foreground = None THEN [s EXCEPT !.foreground = Some(color)] ELSE s

Style_fg(s, color) == [s EXCEPT !.foreground = Some(color)]

\* bg starting from a style without a foreground
Style_bg_clears_fg(s, color) ==
  [s EXCEPT !.background = Some(color), !.foreground = None]

Style_bg(s, color) == [s EXCEPT !.background = Some(color)]

\* attr adding an attribute only when the style does not hold it yet
Style_attr_dedup(h, s, attribute) ==
  IF \E i \in 1..Len(h[s.attributes].items) :
       h[s.attributes].items[i] = attribute
  THEN [heap |-> h, style |-> s]
  ELSE [heap |-> Vec_push(h, s.attributes, attribute), style |-> s]

Style_attr(h, s, attribute) ==
  [heap |-> Vec_push(h, s.attributes, attribute), style |-> s]

Style_bold(h, s) == Style_attr(h, s, "Bold")
Style_dim(h, s) == Style_attr(h, s, "Dim")
Style_italic(h, s) == Style_attr(h, s, "Italic")
Style_underline(h, s) == Style_attr(h, s, "Underline")
Style_blink(h, s) == Style_attr(h, s, "Blink")
Style_reverse(h, s) == Style_attr(h, s, "Reverse")
Style_hidden(h, s) == Style_attr(h, s, "Hidden")
Style_strikethrough(h, s) == Style_attr(h, s, "Strikethrough")

\* #[derive(Clone)] for Style
Style_clone(h, s) ==
  LET v == Vec_clone(h, s.attributes)
  IN [heap |-> v.heap, style |-> [s EXCEPT !.attributes = v.addr]]

\* for attr in &self.attributes { codes.push(attr.to_code().into()) }
attr_codes(items) == [i \in 1..Len(items) |-> to_code(items[i])]

\* to_ansi_start without its codes.is_empty() test
to_ansi_start_always_wraps(h, s) ==
  LET codes1 == attr_codes(h[s.attributes].items)
      codes2 == IF s.foreground.tag = "Some"
                THEN Append(codes1, to_fg_code(s.foreground.val))
                ELSE codes1
      codes3 == IF s.background.tag = "Some"
                THEN Append(codes2, to_bg_code(s.background.val))
                ELSE codes2
  IN <<ESC, "[">> \o join(codes3) \o <<"m">>

\* to_ansi_start pushing the colour codes before the attribute codes
to_ansi_start_colors_first(h, s) ==
  LET codes1 == IF s.foreground.tag = "Some"
                THEN <<to_fg_code(s.foreground.val)>>
                ELSE <<>>
      codes2 == IF s.background.tag = "Some"
                THEN Append(codes1, to_bg_code(s.background.val))
                ELSE codes1
      codes3 == codes2 \o attr_codes(h[s.attributes].items)
  IN IF Len(codes3) = 0 THEN <<>>
     ELSE <<ESC, "[">> \o join(codes3) \o <<"m">>

\* Style::to_ansi_start, #[cfg(not(feature = "no-color"))]
to_ansi_start_color(h, s) ==
  LET codes1 == attr_codes(h[s.attributes].items)
      codes2 == IF s.foreground.tag = "Some"
                THEN Append(codes1, to_fg_code(s.foreground.val))
                ELSE codes1
      codes3 == IF s.background.tag = "Some"
                THEN Append(codes2, to_bg_code(s.background.val))
                ELSE codes2
  IN IF Len(codes3) = 0 THEN <<>>
     ELSE <<ESC, "[">> \o join(codes3) \o <<"m">>

\* a no-color build that still encodes the style
to_ansi_start_no_color_encodes(h, s) == to_ansi_start_color(h, s)

\* Style::to_ansi_start, #[cfg(feature = "no-color")]
to_ansi_start_no_color(h, s) == <<>>

\* the build's to_ansi_start: the feature flag selects one of the two
to_ansi_start(nc, h, s) ==
  IF nc THEN to_ansi_start_no_color(h, s) ELSE to_ansi_start_color(h, s)

----------------------------------------------------------------------------
(* Console *)

Console_new(h, text) ==
  LET st == Style_new(h)
  IN [heap |-> st.heap, console |-> [text |-> text, style |-> st.style]]

Console_with_text(h, c, text) ==
  LET st == Style_clone(h, c.style)
  IN [heap |-> st.heap, console |-> [text |-> text, style |-> st.style]]

Console_fg(c, color) == [c EXCEPT !.style = Style_fg(c.style, color)]

Console_bg(c, color) == [c EXCEPT !.style = Style_bg(c.style, color)]

\* Console::fg_rgb, Console::bg_rgb
Console_fg_rgb(c, r, g, b) == Console_fg(c, RGB(r, g, b))
Console_bg_rgb(c, r, g, b) == Console_bg(c, RGB(r, g, b))

\* the named foreground methods
Console_black(c) == Console_fg(c, Color_BLACK)
Console_red(c) == Console_fg(c, Color_RED)
Console_green(c) == Console_fg(c, Color_GREEN)
Console_yellow(c) == Console_fg(c, Color_YELLOW)
Console_blue(c) == Console_fg(c, Color_BLUE)
Console_magenta(c) == Console_fg(c, Color_MAGENTA)
Console_cyan(c) == Console_fg(c, Color_CYAN)
Console_white(c) == Console_fg(c, Color_WHITE)
Console_bright_black(c) == Console_fg(c, Color_BRIGHT_BLACK)
Console_bright_red(c) == Console_fg(c, Color_BRIGHT_RED)
Console_bright_green(c) == Console_fg(c, Color_BRIGHT_GREEN)
Console_bright_yellow(c) == Console_fg(c, Color_BRIGHT_YELLOW)
Console_bright_blue(c) == Console_fg(c, Color_BRIGHT_BLUE)
Console_bright_magenta(c) == Console_fg(c, Color_BRIGHT_MAGENTA)
Console_bright_cyan(c) == Console_fg(c, Color_BRIGHT_CYAN)
Console_bright_white(c) == Console_fg(c, Color_BRIGHT_WHITE)

\* the named background methods
Console_on_black(c) == Console_bg(c, Color_BLACK)
Console_on_red(c) == Console_bg(c, Color_RED)
Console_on_green(c) == Console_bg(c, Color_GREEN)
Console_on_yellow(c) == Console_bg(c, Color_YELLOW)
Console_on_blue(c) == Console_bg(c, Color_BLUE)
Console_on_magenta(c) == Console_bg(c, Color_MAGENTA)

\* on_cyan setting the foreground
Console_on_cyan_sets_fg(c) == Console_fg(c, Color_CYAN)

Console_on_cyan(c) == Console_bg(c, Color_CYAN)
Console_on_white(c) == Console_bg(c, Color_WHITE)
Console_on_bright_black(c) == Console_bg(c, Color_BRIGHT_BLACK)
Console_on_bright_red(c) == Console_bg(c, Color_BRIGHT_RED)
Console_on_bright_green(c) == Console_bg(c, Color_BRIGHT_GREEN)
Console_on_bright_yellow(c) == Console_bg(c, Color_BRIGHT_YELLOW)
Console_on_bright_blue(c) == Console_bg(c, Color_BRIGHT_BLUE)
Console_on_bright_magenta(c) == Console_bg(c, Color_BRIGHT_MAGENTA)
Console_on_bright_cyan(c) == Console_bg(c, Color_BRIGHT_CYAN)
Console_on_bright_white(c) == Console_bg(c, Color_BRIGHT_WHITE)

\* console.m() for a named colour method m
CallColorMethod(m, c) ==
  CASE m = "black" -> Console_black(c)
    [] m = "red" -> Console_red(c)
    [] m = "green" -> Console_green(c)
    [] m = "yellow" -> Console_yellow(c)
    [] m = "blue" -> Console_blue(c)
    [] m = "magenta" -> Console_magenta(c)
    [] m = "cyan" -> Console_cyan(c)
    [] m = "white" -> Console_white(c)
    [] m = "bright_black" -> Console_bright_black(c)
    [] m = "bright_red" -> Console_bright_red(c)
    [] m = "bright_green" -> Console_bright_green(c)
    [] m = "bright_yellow" -> Console_bright_yellow(c)
    [] m = "bright_blue" -> Console_bright_blue(c)
    [] m = "bright_magenta" -> Console_bright_magenta(c)
    [] m = "bright_cyan" -> Console_bright_cyan(c)
    [] m = "bright_white" -> Console_bright_white(c)
    [] m = "on_black" -> Console_on_black(c)
    [] m = "on_red" -> Console_on_red(c)
    [] m = "on_green" -> Console_on_green(c)
    [] m = "on_yellow" -> Console_on_yellow(c)
    [] m = "on_blue" -> Console_on_blue(c)
    [] m = "on_magenta" -> Console_on_magenta(c)
    [] m = "on_cyan" -> Console_on_cyan(c)
    [] m = "on_white" -> Console_on_white(c)
    [] m = "on_bright_black" -> Console_on_bright_black(c)
    [] m = "on_bright_red" -> Console_on_bright_red(c)
    [] m = "on_bright_green" -> Console_on_bright_green(c)
    [] m = "on_bright_yellow" -> Console_on_bright_yellow(c)
    [] m = "on_bright_blue" -> Console_on_bright_blue(c)
    [] m = "on_bright_magenta" -> Console_on_bright_magenta(c)
    [] m = "on_bright_cyan" -> Console_on_bright_cyan(c)
    [] m = "on_bright_white" -> Console_on_bright_white(c)

Console_attr(h, c, attribute) ==
  LET st == Style_attr(h, c.style, attribute)
  IN [heap |-> st.heap, console |-> [c EXCEPT !.style = st.style]]

Console_bold(h, c) ==
  LET st == Style_bold(h, c.style)
  IN [heap |-> st.heap, console |-> [c EXCEPT !.style = st.style]]

\* fmt closing the styled region only after a non-empty text
Display_fmt_reset_after_text_only(nc, h, c) ==
  LET ansi_code == to_ansi_start(nc, h, c.style)
      f1 == IF Len(ansi_code) # 0 THEN ansi_code ELSE <<>>
      f2 == f1 \o c.text
      f3 == IF Len(ansi_code) # 0 /\ Len(c.text) # 0 THEN f2 \o RESET ELSE f2
  IN f3

\* impl Display for Console: fmt into a String, which never fails
Display_fmt(nc, h, c) ==
  LET ansi_code == to_ansi_start(nc, h, c.style)
      f1 == IF Len(ansi_code) # 0 THEN ansi_code ELSE <<>>
      f2 == f1 \o c.text
      f3 == IF Len(ansi_code) # 0 THEN f2 \o RESET ELSE f2
  IN f3

\* Console::to_string
Console_to_string(nc, h, c) == Display_fmt(nc, h, c)

----------------------------------------------------------------------------
(* The sink of write_to: any W: std::io::Write *)

Min(a, b) == IF a < b THEN a ELSE b

Ok == [ok |-> TRUE, err |-> "none"]
Err(e) == [ok |-> FALSE, err |-> e]

\* the io::Error a failing sink returns
ErrorKind == {"BrokenPipe"}

\* a sink nothing has been written to (Vec::new() in test_console_write_to)
NewWriter == [buf |-> <<>>, calls |-> <<>>]

\* a sink that never fails
NeverFails == [failAt |-> 0, partial |-> 0, err |-> "BrokenPipe"]

\* what a sink may do: fail on its failAt-th write with the error err after
\* delivering none or the first `partial` bytes of that write, and work
\* otherwise
SinkPlans ==
  {NeverFails} \cup
  [failAt : 1..3, partial : {0, MaxPartial}, err : ErrorKind]

\* write!(writer, "{}", s): one write of the chunk s to the sink
write_fmt(w, plan, s) ==
  IF plan.failAt = Len(w.calls) + 1
  THEN [w |-> [buf |-> w.buf \o SubSeq(s, 1, Min(plan.partial, Len(s))),
               calls |-> Append(w.calls,
                                [chunk |-> s, res |-> Err(plan.err)])],
        r |-> Err(plan.err)]
  ELSE [w |-> [buf |-> w.buf \o s,
               calls |-> Append(w.calls, [chunk |-> s, res |-> Ok])],
        r |-> Ok]

\* write_to going on to the reset after a failed write of the text
write_to_ignores_text_error(nc, h, c, w, plan) ==
  LET ansi_code == to_ansi_start(nc, h, c.style)
      s1 == IF Len(ansi_code) # 0 THEN write_fmt(w, plan, ansi_code)
            ELSE [w |-> w, r |-> Ok]
  IN IF ~s1.r.ok THEN s1
     ELSE LET s2 == write_fmt(s1.w, plan, c.text)
          IN IF Len(ansi_code) # 0 THEN write_fmt(s2.w, plan, RESET)
             ELSE [w |-> s2.w, r |-> Ok]

\* write_to writing the start sequence after the text
write_to_text_first(nc, h, c, w, plan) ==
  LET ansi_code == to_ansi_start(nc, h, c.style)
      s1 == write_fmt(w, plan, c.text)
  IN IF ~s1.r.ok THEN s1
     ELSE LET s2 == IF Len(ansi_code) # 0 THEN write_fmt(s1.w, plan, ansi_code)
                    ELSE [w |-> s1.w, r |-> Ok]
          IN IF ~s2.r.ok THEN s2
             ELSE IF Len(ansi_code) # 0 THEN write_fmt(s2.w, plan, RESET)
                  ELSE [w |-> s2.w, r |-> Ok]

\* write_to writing the reset sequence whatever the start sequence is
write_to_always_resets(nc, h, c, w, plan) ==
  LET ansi_code == to_ansi_start(nc, h, c.style)
      s1 == IF Len(ansi_code) # 0 THEN write_fmt(w, plan, ansi_code)
            ELSE [w |-> w, r |-> Ok]
  IN IF ~s1.r.ok THEN s1
     ELSE LET s2 == write_fmt(s1.w, plan, c.text)
          IN IF ~s2.r.ok THEN s2
             ELSE write_fmt(s2.w, plan, RESET)

\* Console::write_to; each `?` returns the error of the write before it
write_to(nc, h, c, w, plan) ==
  LET ansi_code == to_ansi_start(nc, h, c.style)
      s1 == IF Len(ansi_code) # 0 THEN write_fmt(w, plan, ansi_code)
            ELSE [w |-> w, r |-> Ok]
  IN IF ~s1.r.ok THEN s1
     ELSE LET s2 == write_fmt(s1.w, plan, c.text)
          IN IF ~s2.r.ok THEN s2
             ELSE IF Len(ansi_code) # 0 THEN write_fmt(s2.w, plan, RESET)
                  ELSE [w |-> s2.w, r |-> Ok]

\* the line feed of writeln!
NL == "\n"

\* what standard output may do: work, or fail on its failAt-th write
StdoutPlans ==
  {NeverFails} \cup [failAt : 1..4, partial : {0}, err : ErrorKind]

\* Console::print: write_to(&mut stdout).unwrap(), which panics on an Err
Console_print(nc, h, c, w, plan) ==
  LET r == write_to(nc, h, c, w, plan)
  IN [w |-> r.w, panic |-> ~r.r.ok]

\* println writing its line feed before the styled text
Console_println_newline_first(nc, h, c, w, plan) ==
  LET n == write_fmt(w, plan, <<NL>>)
  IN IF ~n.r.ok THEN [w |-> n.w, panic |-> TRUE]
     ELSE LET r == write_to(nc, h, c, n.w, plan)
          IN [w |-> r.w, panic |-> ~r.r.ok]

\* Console::println: write_to(&mut stdout).unwrap(), then
\* writeln!(stdout).unwrap()
Console_println(nc, h, c, w, plan) ==
  LET r == write_to(nc, h, c, w, plan)
  IN IF ~r.r.ok THEN [w |-> r.w, panic |-> TRUE]
     ELSE LET n == write_fmt(r.w, plan, <<NL>>)
          IN [w |-> n.w, panic |-> ~n.r.ok]

----------------------------------------------------------------------------
(* State *)

VARIABLES noColor,  \* the cargo feature "no-color" of the build
  heap,     \* the attribute vectors
  console,  \* the Console value being built
  base,     \* the Console that console was derived from by with_text, if any
  hist,     \* the builder calls applied to console's style, in call order
  snap,     \* the receiver of the last with_text as it was before the call
  last,     \* the last operation and its text argument
  out,      \* the String the last to_string returned
  writer,   \* the sink after the last write_to
  res,      \* the io::Result the last write_to returned
  color,    \* the Color handed to the colour encoders
  fgCode,   \* the last result of to_fg_code
  bgCode,   \* the last result of to_bg_code
  attrIn,   \* the two Attribute values handed to to_code
  attrOut,  \* the results of to_code for them, <<>> before the call
  stdout,   \* what the last print or println wrote to standard output
  panicked  \* an unwrap() of print or println has panicked

vars ==
  <<noColor, heap, console, base, hist, snap, last, out, writer, res, color,
    fgCode, bgCode, attrIn, attrOut, stdout, panicked>>

\* the text payloads of the model
Hi == <<"h", ESC, "[", "0", "m", "i">>
Texts == {<<>>, Hi}

\* the colours and attributes the builder calls of the model are given
FgInputs == {Color_RED, RGB(255, 48, 1)}
BgInputs == {Color_BLUE, RGB(38, 255, 0)}
AttrInputs == {"Bold", "Underline"}

\* a Console with its vector read out of the heap
View(h, c) ==
  [text |-> c.text, foreground |-> c.style.foreground,
   background |-> c.style.background,
   attributes |-> h[c.style.attributes].items]

Cleared ==
  /\ out' = <<>>
  /\ writer' = NewWriter
  /\ res' = Ok
  /\ stdout' = NewWriter

ColorIdle == UNCHANGED <<color, fgCode, bgCode>>

AttrIdle == UNCHANGED <<attrIn, attrOut>>

\* nothing is printed
StdoutIdle == UNCHANGED <<stdout, panicked>>

\* the state after Console::new(t) in a build with or without no-color
Build(nc) ==
  /\ noColor = nc
  /\ \E t \in Texts :
       LET r == Console_new(EmptyHeap, t)
       IN /\ heap = r.heap
          /\ console = r.console
          /\ last = [op |-> "new", text |-> t]
  /\ base = None
  /\ snap = None
  /\ hist = <<>>
  /\ out = <<>>
  /\ writer = NewWriter
  /\ res = Ok
  /\ stdout = NewWriter
  /\ panicked = FALSE

\* no colour has been encoded on its own
NoColorCall ==
  /\ color = Named(0)
  /\ fgCode = <<>>
  /\ bgCode = <<>>

\* no attribute has been encoded on its own
NoAttrCall ==
  /\ attrIn = <<"Bold", "Bold">>
  /\ attrOut = <<<<>>, <<>>>>

\* the default build
Init == Build(FALSE) /\ NoColorCall /\ NoAttrCall

\* the build with the feature no-color
InitNoColor == Build(TRUE) /\ NoColorCall /\ NoAttrCall

Call(op, c, a) == [op |-> op, color |-> c, attribute |-> a]

\* console = console.fg(color)
Fg ==
  /\ ~panicked
  /\ Len(hist) < MaxCalls
  /\ \E c \in FgInputs :
       /\ console' = Console_fg(console, c)
       /\ hist' = Append(hist, Call("fg", c, "-"))
  /\ last' = [op |-> "fg", text |-> <<>>]
  /\ Cleared
  /\ ColorIdle
  /\ AttrIdle
  /\ UNCHANGED panicked
  /\ UNCHANGED <<noColor, heap, base, snap>>

\* console = console.bg(color)
Bg ==
  /\ ~panicked
  /\ Len(hist) < MaxCalls
  /\ \E c \in BgInputs :
       /\ console' = Console_bg(console, c)
       /\ hist' = Append(hist, Call("bg", c, "-"))
  /\ last' = [op |-> "bg", text |-> <<>>]
  /\ Cleared
  /\ ColorIdle
  /\ AttrIdle
  /\ UNCHANGED panicked
  /\ UNCHANGED <<noColor, base, heap, snap>>

\* console = console.attr(attribute)
Attr ==
  /\ ~panicked
  /\ Len(hist) < MaxCalls
  /\ \E a \in AttrInputs :
       LET r == Console_attr(heap, console, a)
       IN /\ heap' = r.heap
          /\ console' = r.console
          /\ hist' = Append(hist, Call("attr", None, a))
  /\ last' = [op |-> "attr", text |-> <<>>]
  /\ Cleared
  /\ ColorIdle
  /\ AttrIdle
  /\ UNCHANGED panicked
  /\ UNCHANGED <<noColor, base, snap>>

\* console = console.bold()
Bold ==
  /\ ~panicked
  /\ Len(hist) < MaxCalls
  /\ LET r == Console_bold(heap, console)
     IN /\ heap' = r.heap
        /\ console' = r.console
  /\ hist' = Append(hist, Call("attr", None, "Bold"))
  /\ last' = [op |-> "attr", text |-> <<>>]
  /\ Cleared
  /\ ColorIdle
  /\ AttrIdle
  /\ UNCHANGED panicked
  /\ UNCHANGED <<noColor, base, snap>>

\* let s = console.to_string()
ToString ==
  /\ ~panicked
  /\ out' = Console_to_string(noColor, heap, console)
  /\ last' = [op |-> "to_string", text |-> <<>>]
  /\ writer' = NewWriter
  /\ res' = Ok
  /\ stdout' = NewWriter
  /\ ColorIdle
  /\ AttrIdle
  /\ UNCHANGED panicked
  /\ UNCHANGED <<noColor, heap, console, base, hist, snap>>

\* let r = console.write_to(&mut sink), the sink being new and following plan
WriteTo ==
  /\ ~panicked
  /\ \E plan \in SinkPlans :
       LET r == write_to(noColor, heap, console, NewWriter, plan)
       IN /\ writer' = r.w
          /\ res' = r.r
  /\ last' = [op |-> "write_to", text |-> <<>>]
  /\ out' = <<>>
  /\ stdout' = NewWriter
  /\ ColorIdle
  /\ AttrIdle
  /\ UNCHANGED panicked
  /\ UNCHANGED <<noColor, heap, console, base, hist, snap>>

\* let r = console.write_to(&mut buffer), buffer being a new Vec<u8>
WriteToVec ==
  /\ ~panicked
  /\ LET r == write_to(noColor, heap, console, NewWriter, NeverFails)
     IN /\ writer' = r.w
        /\ res' = r.r
  /\ last' = [op |-> "write_to", text |-> <<>>]
  /\ out' = <<>>
  /\ stdout' = NewWriter
  /\ ColorIdle
  /\ AttrIdle
  /\ UNCHANGED <<noColor, heap, console, base, hist, snap, panicked>>

\* console.print()
PrintCall ==
  /\ ~panicked
  /\ \E plan \in StdoutPlans :
       LET r == Console_print(noColor, heap, console, NewWriter, plan)
       IN /\ stdout' = r.w
          /\ panicked' = r.panic
  /\ last' = [op |-> "print", text |-> <<>>]
  /\ out' = <<>>
  /\ writer' = NewWriter
  /\ res' = Ok
  /\ ColorIdle
  /\ AttrIdle
  /\ UNCHANGED <<noColor, heap, console, base, hist, snap>>

\* console.println()
PrintlnCall ==
  /\ ~panicked
  /\ \E plan \in StdoutPlans :
       LET r == Console_println(noColor, heap, console, NewWriter, plan)
       IN /\ stdout' = r.w
          /\ panicked' = r.panic
  /\ last' = [op |-> "println", text |-> <<>>]
  /\ out' = <<>>
  /\ writer' = NewWriter
  /\ res' = Ok
  /\ ColorIdle
  /\ AttrIdle
  /\ UNCHANGED <<noColor, heap, console, base, hist, snap>>

\* let derived = console.with_text(t); console moves to base, and the
\* Console base held before is dropped
WithText ==
  /\ ~panicked
  /\ \E t \in Texts :
       LET h1 == IF base.tag = "Some"
                 THEN Vec_drop(heap, base.val.style.attributes)
                 ELSE heap
           r == Console_with_text(h1, console, t)
       IN /\ heap' = r.heap
          /\ console' = r.console
          /\ last' = [op |-> "with_text", text |-> t]
  /\ base' = Some(console)
  /\ snap' = Some(View(heap, console))
  /\ Cleared
  /\ ColorIdle
  /\ AttrIdle
  /\ UNCHANGED panicked
  /\ UNCHANGED <<noColor, hist>>

Next ==
  \/ Fg
  \/ Bg
  \/ Attr
  \/ Bold
  \/ ToString
  \/ WriteTo

Spec == Init /\ [][Next]_vars

SpecNoColor == InitNoColor /\ [][Next]_vars

\* the channel values next to the one that runs over all of u8
Channels == {0, 9, 10, 99, 100, U8Max}

\* the colours handed to the encoders: every palette index, and every RGB
\* triple with one channel anywhere in u8 and the two others in Channels
ColorInput(shape, x, y, z) ==
  CASE shape = "Named" -> Named(x)
    [] shape = "R" -> RGB(x, y, z)
    [] shape = "G" -> RGB(y, x, z)
    [] shape = "B" -> RGB(y, z, x)

\* a Color value, with nothing encoded yet
InitColor ==
  /\ Build(FALSE)
  /\ console.text = <<>>
  /\ \E shape \in {"Named", "R", "G", "B"}, x \in 0..U8Max :
       \E y \in Channels, z \in Channels :
         color = ColorInput(shape, x, y, z)
  /\ fgCode = <<>>
  /\ bgCode = <<>>
  /\ NoAttrCall

ConsoleIdle ==
  /\ UNCHANGED <<noColor, heap, console, base, hist, snap, last, out, writer,
                 res>>
  /\ StdoutIdle

\* let code = color.to_fg_code()
ToFgCode ==
  /\ fgCode' = to_fg_code(color)
  /\ UNCHANGED <<color, bgCode>>
  /\ AttrIdle
  /\ ConsoleIdle

\* let code = color.to_bg_code()
ToBgCode ==
  /\ bgCode' = to_bg_code(color)
  /\ UNCHANGED <<color, fgCode>>
  /\ AttrIdle
  /\ ConsoleIdle

NextColor ==
  \/ ToFgCode
  \/ ToBgCode

\* the colour encoders on their own
SpecColor == InitColor /\ [][NextColor]_vars

\* the two attributes handed to to_code, with nothing encoded yet
InitAttr ==
  /\ Build(FALSE)
  /\ console.text = <<>>
  /\ NoColorCall
  /\ attrIn \in Attribute \X Attribute
  /\ attrOut = <<<<>>, <<>>>>

\* let code = attribute.to_code(), for the first or the second attribute
ToCode ==
  /\ \E i \in 1..2 : attrOut' = [attrOut EXCEPT ![i] = to_code(attrIn[i])]
  /\ UNCHANGED attrIn
  /\ ColorIdle
  /\ ConsoleIdle

NextAttr == ToCode

\* the attribute encoder on its own
SpecAttr == InitAttr /\ [][NextAttr]_vars

\* the colour methods of Console
FgMethods == {"black", "red", "green", "yellow", "blue", "magenta", "cyan",
              "white", "bright_black", "bright_red", "bright_green",
              "bright_yellow", "bright_blue", "bright_magenta", "bright_cyan",
              "bright_white"}
BgMethods == {"on_black", "on_red", "on_green", "on_yellow", "on_blue",
              "on_magenta", "on_cyan", "on_white", "on_bright_black",
              "on_bright_red", "on_bright_green", "on_bright_yellow",
              "on_bright_blue", "on_bright_magenta", "on_bright_cyan",
              "on_bright_white"}

\* the channel triples given to fg_rgb and bg_rgb
RgbInputs == {<<255, 0, 0>>, <<0, 255, 0>>}

\* console = console.m() for a named colour method m
NamedColor ==
  /\ ~panicked
  /\ Len(hist) < MaxColorCalls
  /\ \E m \in FgMethods \cup BgMethods :
       /\ console' = CallColorMethod(m, console)
       /\ hist' = Append(hist, Call(m, None, "-"))
       /\ last' = [op |-> m, text |-> <<>>]
  /\ Cleared
  /\ ColorIdle
  /\ AttrIdle
  /\ UNCHANGED <<noColor, heap, base, snap, panicked>>

\* console = console.fg_rgb(r, g, b)
FgRgb ==
  /\ ~panicked
  /\ Len(hist) < MaxColorCalls
  /\ \E t \in RgbInputs :
       /\ console' = Console_fg_rgb(console, t[1], t[2], t[3])
       /\ hist' = Append(hist, Call("fg_rgb", t, "-"))
  /\ last' = [op |-> "fg_rgb", text |-> <<>>]
  /\ Cleared
  /\ ColorIdle
  /\ AttrIdle
  /\ UNCHANGED <<noColor, heap, base, snap, panicked>>

\* console = console.bg_rgb(r, g, b)
BgRgb ==
  /\ ~panicked
  /\ Len(hist) < MaxColorCalls
  /\ \E t \in RgbInputs :
       /\ console' = Console_bg_rgb(console, t[1], t[2], t[3])
       /\ hist' = Append(hist, Call("bg_rgb", t, "-"))
  /\ last' = [op |-> "bg_rgb", text |-> <<>>]
  /\ Cleared
  /\ ColorIdle
  /\ AttrIdle
  /\ UNCHANGED <<noColor, heap, base, snap, panicked>>

NextNamed ==
  \/ NamedColor
  \/ FgRgb
  \/ BgRgb

\* the colour methods of Console
SpecNamed == Init /\ [][NextNamed]_vars

\* a Console built with or without the no-color feature
InitRender == Init \/ InitNoColor

NextRender ==
  \/ Fg
  \/ Bg
  \/ Attr
  \/ Bold
  \/ ToString
  \/ WriteToVec

\* the builder, to_string and write_to into a Vec<u8>, in both builds
SpecRender == InitRender /\ [][NextRender]_vars

\* a Console with a text to print
InitPrint == Init /\ console.text = Hi

NextPrint ==
  \/ Fg
  \/ Bg
  \/ Attr
  \/ Bold
  \/ ToString
  \/ WriteToVec
  \/ PrintCall
  \/ PrintlnCall

\* the builder and every rendering operation, standard output included
SpecPrint == InitPrint /\ [][NextPrint]_vars

\* the builder with with_text: a style reused for several texts
NextWithText ==
  \/ Fg
  \/ Bg
  \/ Attr
  \/ Bold
  \/ WithText

SpecWithText == Init /\ [][NextWithText]_vars

----------------------------------------------------------------------------
(* Auxiliary definitions of the properties *)

StartsWith(s, p) == Len(s) >= Len(p) /\ SubSeq(s, 1, Len(p)) = p

EndsWith(s, p) ==
  Len(s) >= Len(p) /\ SubSeq(s, Len(s) - Len(p) + 1, Len(s)) = p

\* the style holds no attribute, no foreground and no background
IsEmptyStyle(h, s) ==
  /\ h[s.attributes].items = <<>>
  /\ s.foreground = None
  /\ s.background = None

\* render_prefix of the console of the state
Prefix == to_ansi_start(noColor, heap, console.style)

\* the chunks of a string between the separators c
RECURSIVE SplitAt(_, _, _)
SplitAt(s, c, cur) ==
  IF s = <<>> THEN <<cur>>
  ELSE IF Head(s) = c THEN <<cur>> \o SplitAt(Tail(s), c, <<>>)
  ELSE SplitAt(Tail(s), c, Append(cur, Head(s)))

\* the SGR parameters of a start sequence ESC [ p1 ; p2 ; ... m
Params(prefix) == SplitAt(SubSeq(prefix, 3, Len(prefix) - 1), ";", <<>>)

AttrCodes == {to_code(a) : a \in Attribute}

\* the parameters read as a terminal reads them: one item per attribute
\* code, per 38;5;n or 38;2;r;g;b (fg) and per 48;5;n or 48;2;r;g;b (bg)
RECURSIVE Decode(_)
Decode(ps) ==
  IF ps = <<>> THEN <<>>
  ELSE IF ps[1] \in {<<"3", "8">>, <<"4", "8">>}
  THEN LET kind == IF ps[1] = <<"3", "8">> THEN "fg" ELSE "bg"
       IN IF Len(ps) >= 3 /\ ps[2] = <<"5">>
          THEN <<[kind |-> kind, args |-> SubSeq(ps, 2, 3)]>>
                 \o Decode(SubSeq(ps, 4, Len(ps)))
          ELSE IF Len(ps) >= 5 /\ ps[2] = <<"2">>
          THEN <<[kind |-> kind, args |-> SubSeq(ps, 2, 5)]>>
                 \o Decode(SubSeq(ps, 6, Len(ps)))
          ELSE <<[kind |-> "bad", args |-> ps]>>
  ELSE IF ps[1] \in AttrCodes
  THEN <<[kind |-> "attr", args |-> <<ps[1]>>]>> \o Decode(Tail(ps))
  ELSE <<[kind |-> "bad", args |-> ps]>>

\* the items of the state's prefix (none when the prefix is empty)
PrefixItems ==
  LET p == Prefix
  IN IF p = <<>> THEN <<>> ELSE Decode(Params(p))

IsAttrCall(c) == c.op = "attr"
IsFgCall(c) == c.op = "fg"
IsBgCall(c) == c.op = "bg"

\* the attributes added by the calls of h, in call order
AddedAttrs(h) ==
  LET cs == SelectSeq(h, IsAttrCall)
  IN [i \in 1..Len(cs) |-> cs[i].attribute]

\* the colour of the last call of a kind in h, if there is one
LastColor(h, kind) ==
  LET idx == {i \in 1..Len(h) : h[i].op = kind}
  IN IF idx = {} THEN None
     ELSE Some(h[CHOOSE i \in idx : \A j \in idx : j <= i].color)

Count(seq, x) == Cardinality({i \in 1..Len(seq) : seq[i] = x})

CountKind(items, k) == Cardinality({i \in 1..Len(items) : items[i].kind = k})

\* the whole rendering of the console of the state
Rendered ==
  LET p == Prefix
  IN p \o console.text \o (IF p = <<>> THEN <<>> ELSE RESET)

----------------------------------------------------------------------------
(* C1: with styling enabled and a style that has an attribute, a          *)
(* foreground or a background, to_string returns render_prefix(style),    *)
(* then the text verbatim, then ESC[0m; it starts with ESC[ and ends with *)
(* ESC[0m, also for the empty text.                                       *)
C1_StyledRender ==
  (~noColor /\ last.op = "to_string" /\ ~IsEmptyStyle(heap, console.style)) =>
    LET p == Prefix
    IN /\ p # <<>>
       /\ out = p \o console.text \o <<ESC, "[", "0", "m">>
       /\ StartsWith(out, <<ESC, "[">>)
       /\ EndsWith(out, <<ESC, "[", "0", "m">>)
       /\ SubSeq(out, Len(p) + 1, Len(out) - 4) = console.text

C1_Witness ==
  /\ ~noColor
  /\ last.op = "to_string"
  /\ ~IsEmptyStyle(heap, console.style)
  /\ console.text = <<>>
  /\ Len(out) > 4

(* C2: a style with no attribute, no foreground and no background encodes *)
(* to the empty prefix, and to_string of a Console with such a style      *)
(* returns exactly the text, with no escape byte and no reset added.      *)
C2_EmptyStyle ==
  IsEmptyStyle(heap, console.style) =>
    /\ Prefix = <<>>
    /\ last.op = "to_string" => out = console.text

C2_Witness ==
  /\ ~noColor
  /\ IsEmptyStyle(heap, console.style)
  /\ last.op = "to_string"
  /\ out = Hi

\* the codes the calls of h ask for: the attributes in call order, then the
\* last foreground, then the last background
ExpectedCodes(h) ==
  LET fg == LastColor(h, "fg")
      bg == LastColor(h, "bg")
      as == AddedAttrs(h)
  IN [i \in 1..Len(as) |-> to_code(as[i])]
       \o (IF fg = None THEN <<>> ELSE <<to_fg_code(fg.val)>>)
       \o (IF bg = None THEN <<>> ELSE <<to_bg_code(bg.val)>>)

\* the codes, each but the first after a ';'
RECURSIVE Semicolons(_)
Semicolons(codes) ==
  IF codes = <<>> THEN <<>>
  ELSE Semicolons(SubSeq(codes, 1, Len(codes) - 1))
         \o (IF Len(codes) > 1 THEN <<";">> ELSE <<>>)
         \o codes[Len(codes)]

ExpectedPrefix(h) ==
  LET codes == ExpectedCodes(h)
  IN IF codes = <<>> THEN <<>>
     ELSE <<ESC, "[">> \o Semicolons(codes) \o <<"m">>

OrderingExample ==
  <<Call("bg", Color_BLUE, "-"), Call("fg", Color_RED, "-"),
    Call("attr", None, "Underline"), Call("attr", None, "Bold")>>

C4_NoColor ==
  noColor =>
    /\ Prefix = <<>>
    /\ last.op = "to_string" => out = console.text
    /\ last.op = "write_to" =>
         /\ Len(writer.calls) = 1
         /\ writer.calls[1].chunk = console.text
         /\ res.ok => writer.buf = console.text

C4_Witness ==
  /\ noColor
  /\ last.op = "write_to"
  /\ res.ok
  /\ ~IsEmptyStyle(heap, console.style)
  /\ writer.buf = Hi

\* the writes write_to issues when none fails
ExpectedChunks ==
  LET p == Prefix
  IN IF p = <<>> THEN <<console.text>> ELSE <<p, console.text, RESET>>

(* C5: when a write of write_to fails, write_to returns that write's      *)
(* error, the failing write is the last one issued and no write is        *)
(* issued twice; when no write fails write_to returns Ok after all its    *)
(* writes.                                                                *)
C5_ErrorSurfaced ==
  last.op = "write_to" =>
    LET calls == writer.calls
        failed == {i \in 1..Len(calls) : ~calls[i].res.ok}
        chunks == ExpectedChunks
    IN /\ Len(calls) <= Len(chunks)
       /\ \A i \in 1..Len(calls) : calls[i].chunk = chunks[i]
       /\ \A i \in failed : i = Len(calls) /\ res = calls[i].res
       /\ failed = {} => res = Ok /\ Len(calls) = Len(chunks)
       /\ res.ok => failed = {}

C5_Witness ==
  /\ last.op = "write_to"
  /\ ~res.ok
  /\ res.err = "BrokenPipe"
  /\ Len(writer.calls) = 2
  /\ writer.calls[1].res.ok

IsPrefix(p, s) == Len(p) <= Len(s) /\ SubSeq(s, 1, Len(p)) = p

(* C6 as claimed: a write_to of a styled Console never ends with only a   *)
(* part of the rendered output in the sink, such as the start sequence    *)
(* without the closing ESC[0m.                                            *)
C6_NeverPartial ==
  (last.op = "write_to" /\ Prefix # <<>>) =>
    \/ writer.buf = Rendered
    \/ writer.buf = <<>>

(* C6 as amended: write_to delivers the whole rendered output when no     *)
(* write fails; when a write fails the sink holds a prefix of the         *)
(* rendered output, cut where the failing write stopped, and write_to     *)
(* returns the error.                                                     *)
C6_PrefixDelivered ==
  last.op = "write_to" =>
    LET all == Rendered
    IN /\ IsPrefix(writer.buf, all)
       /\ res.ok => writer.buf = all
       /\ writer.buf # all => ~res.ok

C6_Witness ==
  /\ last.op = "write_to"
  /\ ~res.ok
  /\ Prefix # <<>>
  /\ console.text = Hi
  /\ writer.buf = Prefix \o console.text

(* C7: adding an attribute always appends: an attribute added N times is  *)
(* N times in the style's attribute list and its code N times among the   *)
(* attribute codes of the prefix; the list is as long as the number of    *)
(* attribute-adding calls.                                                *)
C7_NoDedup ==
  LET items == heap[console.style.attributes].items
      added == AddedAttrs(hist)
      codes == SelectSeq(PrefixItems, LAMBDA it : it.kind = "attr")
  IN /\ Len(items) = Len(added)
     /\ \A a \in Attribute :
          /\ Count(items, a) = Count(added, a)
          /\ ~noColor =>
               Cardinality({i \in 1..Len(codes) : codes[i].args = <<to_code(a)>>})
                 = Count(added, a)

C7_Witness ==
  /\ ~noColor
  /\ heap[console.style.attributes].items = <<"Bold", "Bold", "Bold">>
  /\ console.style.foreground # None
  /\ last.op = "attr"

(* C8: the foreground is the colour of the most recent foreground-setting *)
(* call (none without such a call), likewise the background, and the      *)
(* prefix holds at most one foreground code and one background code.      *)
C8_LastWins ==
  LET items == PrefixItems
      fg == LastColor(hist, "fg")
      bg == LastColor(hist, "bg")
  IN /\ console.style.foreground = fg
     /\ console.style.background = bg
     /\ CountKind(items, "fg") <= 1
     /\ CountKind(items, "bg") <= 1
     /\ CountKind(items, "bad") = 0
     /\ ~noColor =>
          /\ CountKind(items, "fg") = 1 <=> fg # None
          /\ CountKind(items, "bg") = 1 <=> bg # None

C8_Witness ==
  /\ ~noColor
  /\ Len(SelectSeq(hist, IsFgCall)) = 2
  /\ Len(SelectSeq(hist, IsBgCall)) = 2
  /\ hist[1].color = Named(1)
  /\ console.style.foreground = Some(RGB(255, 48, 1))
  /\ hist[3].color = RGB(38, 255, 0)
  /\ console.style.background = Some(Named(4))

(* C9: c.with_text(t) returns a Console with the text t and with c's      *)
(* foreground, background and attribute sequence; c is as it was before   *)
(* the call, and stays so under the builder calls applied to the derived  *)
(* value, whose attribute vector is a copy of its own.                    *)
C9_WithText ==
  base.tag = "Some" =>
    /\ snap.tag = "Some"
    /\ View(heap, base.val) = snap.val
    /\ base.val.style.attributes # console.style.attributes
    /\ heap[base.val.style.attributes].live
    /\ heap[console.style.attributes].live
    /\ last.op = "with_text" =>
         /\ console.text = last.text
         /\ console.style.foreground = snap.val.foreground
         /\ console.style.background = snap.val.background
         /\ heap[console.style.attributes].items = snap.val.attributes

C9_Witness ==
  /\ base.tag = "Some"
  /\ last.op = "attr"
  /\ snap.val.attributes = <<"Bold", "Bold">>
  /\ heap[console.style.attributes].items = <<"Bold", "Bold", "Underline">>
  /\ snap.val.text = <<>>
  /\ console.text = Hi

DigitValue(c) ==
  CASE c = "0" -> 0 [] c = "1" -> 1 [] c = "2" -> 2 [] c = "3" -> 3
    [] c = "4" -> 4 [] c = "5" -> 5 [] c = "6" -> 6 [] c = "7" -> 7
    [] c = "8" -> 8 [] c = "9" -> 9

DigitChars == {"0", "1", "2", "3", "4", "5", "6", "7", "8", "9"}

\* d is the decimal numeral of n: digits only, no padding
IsDecimalOf(d, n) ==
  /\ Len(d) \in 1..3
  /\ \A i \in 1..Len(d) : d[i] \in DigitChars
  /\ Len(d) > 1 => d[1] # "0"
  /\ n = IF Len(d) = 1 THEN DigitValue(d[1])
         ELSE IF Len(d) = 2 THEN 10 * DigitValue(d[1]) + DigitValue(d[2])
         ELSE 100 * DigitValue(d[1]) + 10 * DigitValue(d[2])
                + DigitValue(d[3])

\* code is lead;5;n for Named(n) and lead;2;r;g;b for RGB(r, g, b)
IsCodeOf(code, lead, c) ==
  LET f == SplitAt(code, ";", <<>>)
  IN IF c.tag = "Named"
     THEN /\ Len(f) = 3
          /\ f[1] = lead
          /\ f[2] = <<"5">>
          /\ IsDecimalOf(f[3], c.n)
     ELSE /\ Len(f) = 5
          /\ f[1] = lead
          /\ f[2] = <<"2">>
          /\ IsDecimalOf(f[3], c.r)
          /\ IsDecimalOf(f[4], c.g)
          /\ IsDecimalOf(f[5], c.b)

(* C10: for every n in 0..255 Named(n) has the foreground code 38;5;n and *)
(* the background code 48;5;n, and for r, g, b in 0..255 RGB(r,g,b) has   *)
(* 38;2;r;g;b and 48;2;r;g;b, the numbers in decimal without padding.     *)
C10_ColorCodes ==
  /\ fgCode # <<>> => IsCodeOf(fgCode, <<"3", "8">>, color)
  /\ bgCode # <<>> => IsCodeOf(bgCode, <<"4", "8">>, color)
  /\ (fgCode # <<>> /\ color = RGB(255, 128, 0)) =>
       fgCode = <<"3", "8", ";", "2", ";", "2", "5", "5", ";", "1", "2", "8",
                  ";", "0">>
  /\ (bgCode # <<>> /\ color = Named(1)) =>
       bgCode = <<"4", "8", ";", "5", ";", "1">>
  /\ ENABLED ToFgCode
  /\ ENABLED ToBgCode

C10_Witness ==
  /\ color = RGB(255, 128, 0)
  /\ fgCode # <<>>
  /\ bgCode = <<"4", "8", ";", "2", ";", "2", "5", "5", ";", "1", "2", "8",
                ";", "0">>

\* the SGR code of each attribute, as a table
CodeTable ==
  {<<"Bold", "1">>, <<"Dim", "2">>, <<"Italic", "3">>, <<"Underline", "4">>,
   <<"Blink", "5">>, <<"Reverse", "7">>, <<"Hidden", "8">>,
   <<"Strikethrough", "9">>}

(* C11: to_code gives Bold 1, Dim 2, Italic 3, Underline 4, Blink 5,      *)
(* Reverse 7, Hidden 8, Strikethrough 9 and has a result for each of the  *)
(* eight attributes; no attribute has the code 6 and two different        *)
(* attributes never have the same code.                                   *)
C11_AttributeCodes ==
  /\ \A i \in 1..2 :
       attrOut[i] # <<>> =>
         /\ Len(attrOut[i]) = 1
         /\ <<attrIn[i], attrOut[i][1]>> \in CodeTable
         /\ attrOut[i] # <<"6">>
  /\ (attrOut[1] # <<>> /\ attrOut[2] # <<>> /\ attrIn[1] # attrIn[2]) =>
       attrOut[1] # attrOut[2]
  /\ ENABLED ToCode

C11_Witness ==
  /\ attrIn = <<"Reverse", "Strikethrough">>
  /\ attrOut = <<<<"7">>, <<"9">>>>

(* C12: println writes the rendered output to standard output and then    *)
(* one line feed, after the reset sequence (after the text when the style *)
(* is empty); print writes the same rendered output and no line feed; the *)
(* line feed is never written before or inside the styled region.         *)
C12_PrintNewline ==
  LET calls == stdout.calls
      chunks == ExpectedChunks
      all == Rendered
      sent == [i \in 1..Len(calls) |-> calls[i].chunk]
  IN /\ last.op = "print" =>
          /\ Len(sent) <= Len(chunks)
          /\ sent = SubSeq(chunks, 1, Len(sent))
          /\ ~panicked => stdout.buf = all
     /\ last.op = "println" =>
          /\ Len(sent) <= Len(chunks) + 1
          /\ sent = SubSeq(Append(chunks, <<NL>>), 1, Len(sent))
          /\ Len(sent) = Len(chunks) + 1 =>
               \A i \in 1..Len(chunks) : calls[i].res.ok
          /\ ~panicked => stdout.buf = all \o <<NL>>
     /\ last.op \in {"print", "println"} =>
          (panicked <=> \E i \in 1..Len(calls) : ~calls[i].res.ok)

C12_Witness ==
  /\ last.op = "println"
  /\ ~panicked
  /\ Len(stdout.calls) = 4
  /\ EndsWith(stdout.buf, <<"i", ESC, "[", "0", "m", NL>>)

\* the names of the standard palette, by index 0..15
PaletteNames ==
  <<"black", "red", "green", "yellow", "blue", "magenta", "cyan", "white",
    "bright_black", "bright_red", "bright_green", "bright_yellow",
    "bright_blue", "bright_magenta", "bright_cyan", "bright_white">>

OnPaletteNames ==
  <<"on_black", "on_red", "on_green", "on_yellow", "on_blue", "on_magenta",
    "on_cyan", "on_white", "on_bright_black", "on_bright_red",
    "on_bright_green", "on_bright_yellow", "on_bright_blue",
    "on_bright_magenta", "on_bright_cyan", "on_bright_white">>

\* the colour the slot ("fg" or "bg") has after the colour method calls h:
\* that of the last call made for this slot, whatever was called for the other
RECURSIVE SlotAfter(_, _)
SlotAfter(h, slot) ==
  IF h = <<>> THEN None
  ELSE LET c == h[Len(h)]
           names == IF slot = "fg" THEN PaletteNames ELSE OnPaletteNames
           rgb == IF slot = "fg" THEN "fg_rgb" ELSE "bg_rgb"
           idx == {i \in 1..16 : names[i] = c.op}
       IN IF idx # {} THEN Some([tag |-> "Named", n |-> (CHOOSE i \in idx : TRUE) - 1])
          ELSE IF c.op = rgb
          THEN Some([tag |-> "RGB", r |-> c.color[1], g |-> c.color[2],
                     b |-> c.color[3]])
          ELSE SlotAfter(SubSeq(h, 1, Len(h) - 1), slot)

(* C13: each of black .. white, bright_black .. bright_white sets the     *)
(* foreground to the palette index 0..15 of its name, each on_* method    *)
(* sets the background to the index of its name, fg_rgb and bg_rgb set    *)
(* foreground and background to RGB(r,g,b), and none of them sets the     *)
(* other colour slot.                                                     *)
C13_NamedColors ==
  /\ console.style.foreground = SlotAfter(hist, "fg")
  /\ console.style.background = SlotAfter(hist, "bg")

C13_Witness ==
  /\ Len(hist) = 2
  /\ hist[1].op = "on_bright_cyan"
  /\ hist[2].op = "magenta"
  /\ console.style.foreground = Some(Named(5))
  /\ console.style.background = Some(Named(14))

\* the chunks of the writes w received, one after the other
RECURSIVE Delivered(_)
Delivered(calls) ==
  IF calls = <<>> THEN <<>>
  ELSE Delivered(SubSeq(calls, 1, Len(calls) - 1)) \o calls[Len(calls)].chunk

(* C14: for every Console and a sink that never fails, the bytes write_to *)
(* delivers, concatenated in the order of the writes, are the string      *)
(* to_string returns for the same Console, with styling enabled and with  *)
(* styling disabled; write_to returns Ok.                                 *)
C14_WriteToIsToString ==
  last.op = "write_to" =>
    LET s == Console_to_string(noColor, heap, console)
    IN /\ res = Ok
       /\ Delivered(writer.calls) = s
       /\ writer.buf = s

\* styled, a Console with two attributes and both colours
C14_Witness ==
  /\ last.op = "write_to"
  /\ ~noColor
  /\ Len(hist) = 4
  /\ CountKind(PrefixItems, "attr") = 2
  /\ console.style.foreground # None
  /\ console.style.background # None
  /\ console.text = Hi
  /\ Len(writer.calls) = 3
  /\ writer.buf = Console_to_string(noColor, heap, console)

\* the operations that render a Console
RenderOps == {"to_string", "write_to", "print", "println"}

\* what a step may do to the Console, by the operation the step is
FrameStep ==
  LET op == last'.op
      before == View(heap, console)
      after == View(heap', console')
  IN /\ op = "fg" =>
          /\ after.background = before.background
          /\ after.attributes = before.attributes
          /\ after.text = before.text
     /\ op = "bg" =>
          /\ after.foreground = before.foreground
          /\ after.attributes = before.attributes
          /\ after.text = before.text
     /\ op = "attr" =>
          /\ after.foreground = before.foreground
          /\ after.background = before.background
          /\ after.text = before.text
          /\ Len(after.attributes) = Len(before.attributes) + 1
          /\ IsPrefix(before.attributes, after.attributes)
     /\ op \in RenderOps => after = before

(* C15: a foreground-setting call leaves the background, the attribute    *)
(* sequence and the text unchanged; a background-setting call leaves the  *)
(* foreground, the attributes and the text unchanged; an attribute-adding *)
(* call leaves foreground, background and text unchanged and the          *)
(* attributes held before as a prefix of the new sequence; to_string,     *)
(* write_to, print and println leave text and style unchanged.            *)
C15_Frame == [][FrameStep]_vars

\* a background set after a foreground and two attributes
C15_Witness ==
  /\ last.op = "bg"
  /\ Len(hist) = 4
  /\ hist[4].op = "bg"
  /\ View(heap, console).attributes = <<"Underline", "Bold">>
  /\ console.style.foreground = Some(Color_RED)
  /\ console.style.background = Some(RGB(38, 255, 0))
  /\ console.text = Hi

====
